---- MODULE Spec2Model ----
(***************************************************************************)
(* Friender backend (src/app.py): the request handlers of the Flask app    *)
(* over the User, Like and Dislike tables.                                 *)
(*                                                                         *)
(* Spec      every request handler runs from start to commit in one step   *)
(*           (requests served one after another).                          *)
(* SpecConc  like/dislike requests are served concurrently: the query of   *)
(*           line 299/327 and the insert+commit of line 305/333 are two    *)
(*           steps, and other requests may commit between them.            *)
(*                                                                         *)
(* models.py (User.signup, User.authenticate, User.get_coords,             *)
(* User.get_list_of_potential_friends, the Like/Dislike tables) is not     *)
(* part of the sources; those pieces follow spec.md sections 3, 4.1, 6.    *)
(***************************************************************************)
EXTENDS Integers, Sequences, FiniteSets, TLC

\* ---------------------------------------------------------------- bounds
NumUsers == 2
MaxInFlight == 2

\* ------------------------------------------------------------ input sets
NoUser == 0
NoCoords == <<>>

UserIds == 1..NumUsers
Usernames == 1..NumUsers
Passwords == {"pw1", "pw2"}
ZipCodes == {"z0", "z3", "zz"}
Radii == {2, 3}
Pairs == UserIds \X UserIds

\* the forms sent to /signup and /users/<id>/edit: every form that passes
\* validation, and forms that fail validation or whose image upload fails
Forms ==
  {f \in [valid : BOOLEAN, password : Passwords, zip_code : ZipCodes,
          friend_radius_miles : Radii, upload_fails : BOOLEAN] :
     \/ f.valid /\ ~f.upload_fails
     \/ /\ f.zip_code = "z0" /\ f.friend_radius_miles = 2
        /\ f.valid = f.upload_fails}

\* the password the user of this name signs up with: their own secret
password_of(username) == IF username = 1 THEN "pw1" ELSE "pw2"

INVALID_CREDENTIALS_MSG == "invalid-credentials"

\* a request slot with no request in it
Idle == [op |-> "idle", actor |-> NoUser, other |-> NoUser, user_options |-> <<>>]

VARIABLES users, likes, dislikes, request, response, inflight

vars == <<users, likes, dislikes, request, response, inflight>>

\* ------------------------------------------------------- models.py pieces
\* postal code -> coordinates; an unknown postal code has none.  Coordinates
\* are <<miles north, miles east>> of points on one meridian, where the
\* great-circle distance is the difference of the first components.
get_coords(zip_code) ==
  CASE zip_code = "z0" -> <<0, 0>>
    [] zip_code = "z3" -> <<3, 0>>
    [] OTHER -> NoCoords

haversine_distance(a, b) == IF a[1] >= b[1] THEN a[1] - b[1] ELSE b[1] - a[1]

Range(s) == {s[i] : i \in DOMAIN s}

Ids == DOMAIN users

\* ids of the rows of a decision table with the given actor / target
targets_of(table, u) == {c \in UserIds : table[<<u, c>>] > 0}
actors_on(table, u) == {c \in UserIds : table[<<c, u>>] > 0}

in_radius(u, c) ==
  /\ users[u].coordinates # NoCoords
  /\ users[c].coordinates # NoCoords
  /\ LET d == haversine_distance(users[u].coordinates, users[c].coordinates)
     IN  d <= users[u].friend_radius_miles /\ d <= users[c].friend_radius_miles

get_list_of_potential_friends_NoTheirs(u) ==
  LET excluded == {u} \cup targets_of(likes, u) \cup targets_of(dislikes, u)
                    \cup actors_on(likes, u) \cup actors_on(dislikes, u)
      ids == [i \in 1..Len(users) |-> i]
      keep(c) == c \notin excluded /\ in_radius(u, c)
  IN  SelectSeq(ids, keep)

get_list_of_potential_friends_OneRadius(u) ==
  LET excluded == {u} \cup targets_of(likes, u) \cup targets_of(dislikes, u)
                    \cup actors_on(dislikes, u)
      ids == [i \in 1..Len(users) |-> i]
      keep(c) ==
        /\ c \notin excluded
        /\ users[u].coordinates # NoCoords
        /\ users[c].coordinates # NoCoords
        /\ haversine_distance(users[u].coordinates, users[c].coordinates)
             <= users[u].friend_radius_miles
  IN  SelectSeq(ids, keep)

\* the users eligible as friends of u, by ascending id
get_list_of_potential_friends(u) ==
  LET excluded == {u} \cup targets_of(likes, u) \cup targets_of(dislikes, u)
                    \cup actors_on(dislikes, u)
      ids == [i \in 1..Len(users) |-> i]
      keep(c) == c \notin excluded /\ in_radius(u, c)
  IN  SelectSeq(ids, keep)

potential_friends(u) == Range(get_list_of_potential_friends(u))

\* the id of the user with these credentials, or NoUser
authenticate(username, password) ==
  LET m == {i \in Ids : users[i].username = username /\ users[i].password = password}
  IN  IF m = {} THEN NoUser ELSE CHOOSE i \in m : TRUE

\* ----------------------------------------------------------- app.py glue
_get_json_message(msg) == [status |-> msg, user_options |-> <<>>]

\* the request being answered: the route, g.user and the id in the URL
Request(op, g_user, id) == [op |-> op, g_user |-> g_user, id |-> id]

\* g.user of a request: the user named by the token, or NoUser without a token
add_user_to_g(token) ==
  IF token = NoUser THEN NoUser
  ELSE LET m == {i \in Ids : users[i].username = token}
       IN  IF m = {} THEN NoUser ELSE CHOOSE i \in m : TRUE

Tokens == {NoUser} \cup {users[i].username : i \in Ids}

Init ==
  /\ users = <<>>
  /\ likes = [p \in Pairs |-> 0]
  /\ dislikes = [p \in Pairs |-> 0]
  /\ request = Request("none", NoUser, NoUser)
  /\ response = _get_json_message("none")
  /\ inflight = [s \in 1..MaxInFlight |-> Idle]

\* ------------------------------------------------------- request handlers
NewUser(username, password, zip_code, radius) ==
  [username |-> username, password |-> password, zip_code |-> zip_code,
   friend_radius_miles |-> radius, coordinates |-> get_coords(zip_code)]

\* POST /signup
signup(valid, username, password, zip_code, radius) ==
  /\ request' = Request("signup", NoUser, NoUser)
  /\ Len(users) < NumUsers
  /\ IF ~valid
       THEN /\ response' = _get_json_message("unable-to-add-user")
            /\ UNCHANGED users
       ELSE IF \E i \in Ids : users[i].username = username
         THEN /\ response' = _get_json_message("username-email-already-taken")
              /\ UNCHANGED users
         ELSE /\ users' = Append(users, NewUser(username, password, zip_code, radius))
              /\ response' = _get_json_message("user-token")
  /\ UNCHANGED <<likes, dislikes, inflight>>

\* POST /login
login(valid, username, password) ==
  /\ request' = Request("login", NoUser, NoUser)
  /\ response' = IF valid /\ authenticate(username, password) # NoUser
                   THEN _get_json_message("user-token")
                   ELSE _get_json_message(INVALID_CREDENTIALS_MSG)
  /\ UNCHANGED <<users, likes, dislikes, inflight>>

\* GET /users/<user_id>
users_show(token, user_id) ==
  LET g_user == add_user_to_g(token) IN
  /\ request' = Request("show", g_user, user_id)
  /\ response' = IF g_user = NoUser THEN _get_json_message(INVALID_CREDENTIALS_MSG)
                 ELSE IF user_id \notin Ids THEN _get_json_message("404")
                 ELSE _get_json_message("user")
  /\ UNCHANGED <<users, likes, dislikes, inflight>>

get_potential_friends_Marking(token, user_id) ==
  LET g_user == add_user_to_g(token) IN
  /\ request' = Request("potentials", g_user, user_id)
  /\ g_user # NoUser /\ user_id \in Ids /\ users[user_id].username = users[g_user].username
  /\ response' = [status |-> "user_options",
                  user_options |-> get_list_of_potential_friends(user_id)]
  /\ dislikes' = [p \in Pairs |->
                    IF p[1] = user_id /\ p[2] \in potential_friends(user_id)
                      THEN dislikes[p] + 1 ELSE dislikes[p]]
  /\ UNCHANGED <<users, likes, inflight>>

\* GET /users/<user_id>/potentials
get_potential_friends(token, user_id) ==
  LET g_user == add_user_to_g(token) IN
  /\ request' = Request("potentials", g_user, user_id)
  /\ response' =
       IF g_user = NoUser THEN _get_json_message(INVALID_CREDENTIALS_MSG)
       ELSE IF user_id \notin Ids THEN _get_json_message("404")
       ELSE IF users[user_id].username # users[g_user].username
         THEN _get_json_message(INVALID_CREDENTIALS_MSG)
       ELSE [status |-> "user_options",
             user_options |-> get_list_of_potential_friends(user_id)]
  /\ UNCHANGED <<users, likes, dislikes, inflight>>

user_edit_ResetsDecisions(token, user_id, valid, password, zip_code, radius, upload_fails) ==
  LET g_user == add_user_to_g(token) IN
  /\ request' = Request("edit", g_user, user_id)
  /\ g_user # NoUser /\ user_id \in Ids
  /\ valid /\ authenticate(users[g_user].username, password) # NoUser /\ ~upload_fails
  /\ users' = [users EXCEPT ![user_id] =
                 [@ EXCEPT !.zip_code = zip_code,
                           !.friend_radius_miles = radius,
                           !.coordinates = get_coords(zip_code)]]
  /\ likes' = [p \in Pairs |-> IF p[1] = user_id THEN 0 ELSE likes[p]]
  /\ dislikes' = [p \in Pairs |-> IF p[1] = user_id THEN 0 ELSE dislikes[p]]
  /\ response' = _get_json_message("user")
  /\ UNCHANGED inflight

\* POST /users/<user_id>/edit
user_edit(token, user_id, valid, password, zip_code, radius, upload_fails) ==
  LET g_user == add_user_to_g(token) IN
  /\ request' = Request("edit", g_user, user_id)
  /\ IF g_user = NoUser
       THEN /\ response' = _get_json_message(INVALID_CREDENTIALS_MSG)
            /\ UNCHANGED users
       ELSE IF user_id \notin Ids
         THEN /\ response' = _get_json_message("404")
              /\ UNCHANGED users
       ELSE IF ~valid \/ authenticate(users[g_user].username, password) = NoUser
         THEN /\ response' = _get_json_message("unable-to-update-user")
              /\ UNCHANGED users
       ELSE IF upload_fails
         THEN /\ response' = _get_json_message("image-upload-failed")
              /\ UNCHANGED users
       ELSE /\ users' = [users EXCEPT ![user_id] =
                           [@ EXCEPT !.zip_code = zip_code,
                                     !.friend_radius_miles = radius,
                                     !.coordinates = get_coords(zip_code)]]
            /\ response' = _get_json_message("user")
  /\ UNCHANGED <<likes, dislikes, inflight>>

append(table, actor, other) == [table EXCEPT ![<<actor, other>>] = @ + 1]

like_potential_friend_Unchecked(token, other_id) ==
  LET g_user == add_user_to_g(token) IN
  /\ request' = Request("like", g_user, other_id)
  /\ g_user # NoUser /\ other_id \in Ids
  /\ likes' = append(likes, g_user, other_id)
  /\ response' = _get_json_message("user-liked")
  /\ UNCHANGED <<users, dislikes, inflight>>

\* POST /users/like/<other_id>
like_potential_friend(token, other_id) ==
  LET g_user == add_user_to_g(token) IN
  /\ request' = Request("like", g_user, other_id)
  /\ IF g_user = NoUser
       THEN /\ response' = _get_json_message(INVALID_CREDENTIALS_MSG)
            /\ UNCHANGED likes
       ELSE LET user_options == get_list_of_potential_friends(g_user) IN
         IF other_id \notin Ids
           THEN /\ response' = _get_json_message("404")
                /\ UNCHANGED likes
         ELSE IF other_id \notin Range(user_options)
           THEN /\ response' = _get_json_message("user-not-potential-friend")
                /\ UNCHANGED likes
         ELSE /\ likes' = append(likes, g_user, other_id)
              /\ response' = _get_json_message("user-liked")
  /\ UNCHANGED <<users, dislikes, inflight>>

dislike_potential_friend_Unchecked(token, other_id) ==
  LET g_user == add_user_to_g(token) IN
  /\ request' = Request("dislike", g_user, other_id)
  /\ g_user # NoUser /\ other_id \in Ids
  /\ dislikes' = append(dislikes, g_user, other_id)
  /\ response' = _get_json_message("user-disliked")
  /\ UNCHANGED <<users, likes, inflight>>

\* POST /users/dislike/<other_id>
dislike_potential_friend(token, other_id) ==
  LET g_user == add_user_to_g(token) IN
  /\ request' = Request("dislike", g_user, other_id)
  /\ IF g_user = NoUser
       THEN /\ response' = _get_json_message(INVALID_CREDENTIALS_MSG)
            /\ UNCHANGED dislikes
       ELSE LET user_options == get_list_of_potential_friends(g_user) IN
         IF other_id \notin Ids
           THEN /\ response' = _get_json_message("404")
                /\ UNCHANGED dislikes
         ELSE IF other_id \notin Range(user_options)
           THEN /\ response' = _get_json_message("user-not-potential-friend")
                /\ UNCHANGED dislikes
         ELSE /\ dislikes' = append(dislikes, g_user, other_id)
              /\ response' = _get_json_message("user-disliked")
  /\ UNCHANGED <<users, likes, inflight>>

Signup ==
  \E username \in Usernames :
    \E f \in {g \in Forms : g.password = password_of(username) /\ ~g.upload_fails} :
    signup(f.valid, username, f.password, f.zip_code, f.friend_radius_miles)

Login ==
  \E valid \in BOOLEAN, username \in Usernames, password \in Passwords :
    login(valid, username, password)

UsersShow == \E token \in Tokens, user_id \in UserIds : users_show(token, user_id)

GetPotentialFriends ==
  \E token \in Tokens, user_id \in UserIds : get_potential_friends(token, user_id)

UserEdit ==
  \E token \in Tokens, user_id \in UserIds, f \in Forms :
    user_edit(token, user_id, f.valid, f.password, f.zip_code, f.friend_radius_miles,
              f.upload_fails)

LikePotentialFriend ==
  \E token \in Tokens, other_id \in UserIds : like_potential_friend(token, other_id)

DislikePotentialFriend ==
  \E token \in Tokens, other_id \in UserIds : dislike_potential_friend(token, other_id)

Next ==
  \/ Signup
  \/ Login
  \/ UsersShow
  \/ GetPotentialFriends
  \/ UserEdit
  \/ LikePotentialFriend
  \/ DislikePotentialFriend

Spec == Init /\ [][Next]_vars

\* ------------------------------------------- concurrent like/dislike requests
\* Lines 296-300 / 324-328 of a like or dislike request: g.user is set, the
\* potential friends are queried and the other user is fetched.  The request
\* then holds its own copy of user_options until it inserts.
decision_query(s, op, token, other_id) ==
  LET g_user == add_user_to_g(token) IN
  /\ request' = Request(op, g_user, other_id)
  /\ inflight[s] = Idle
  /\ \A r \in 1..(s - 1) : inflight[r] # Idle
  /\ IF g_user = NoUser
       THEN /\ response' = _get_json_message(INVALID_CREDENTIALS_MSG)
            /\ UNCHANGED inflight
       ELSE IF other_id \notin Ids
         THEN /\ response' = _get_json_message("404")
              /\ UNCHANGED inflight
         ELSE /\ inflight' = [inflight EXCEPT ![s] =
                   [op |-> op, actor |-> g_user, other |-> other_id,
                    user_options |-> get_list_of_potential_friends(g_user)]]
              /\ UNCHANGED response
  /\ UNCHANGED <<users, likes, dislikes>>

\* Lines 302-308 / 330-336: the membership test on the request's copy of
\* user_options, then the insert and commit.  A row that is already in the
\* table is either inserted a second time or refused by the table (a 500).
decision_commit(s, op, table, other_table) ==
  LET r == inflight[s] IN
  /\ r.op = op
  /\ inflight' = [inflight EXCEPT ![s] = Idle]
  /\ IF r.other \notin Range(r.user_options)
       THEN /\ response' = _get_json_message("user-not-potential-friend")
            /\ UNCHANGED table
       ELSE \/ /\ table' = append(table, r.actor, r.other)
               /\ response' = _get_json_message(IF op = "like" THEN "user-liked"
                                                             ELSE "user-disliked")
            \/ /\ table[<<r.actor, r.other>>] > 0
               /\ response' = _get_json_message("500")
               /\ UNCHANGED table
  /\ UNCHANGED <<users, other_table, request>>

LikeQuery ==
  \E s \in 1..MaxInFlight, token \in Tokens, other_id \in UserIds :
    decision_query(s, "like", token, other_id)

LikeCommit == \E s \in 1..MaxInFlight : decision_commit(s, "like", likes, dislikes)

DislikeQuery ==
  \E s \in 1..MaxInFlight, token \in Tokens, other_id \in UserIds :
    decision_query(s, "dislike", token, other_id)

DislikeCommit == \E s \in 1..MaxInFlight : decision_commit(s, "dislike", dislikes, likes)

\* a database in which every user has signed up, before any decision
InitConc ==
  /\ \E zips \in [UserIds -> ZipCodes], radii \in [UserIds -> Radii] :
       users = [i \in UserIds |-> NewUser(i, password_of(i), zips[i], radii[i])]
  /\ likes = [p \in Pairs |-> 0]
  /\ dislikes = [p \in Pairs |-> 0]
  /\ request = Request("none", NoUser, NoUser)
  /\ response = _get_json_message("none")
  /\ inflight = [s \in 1..MaxInFlight |-> Idle]

NextConc ==
  \/ LikeQuery
  \/ LikeCommit
  \/ DislikeQuery
  \/ DislikeCommit

SpecConc == InitConc /\ [][NextConc]_vars

\* ------------------------------------------------------------ properties
decided(u, c) == likes[<<u, c>>] > 0 \/ dislikes[<<u, c>>] > 0

Rejected(op) ==
  /\ request.op = op
  /\ response.status = "user-not-potential-friend"

\* C1: a like or dislike request of an authenticated user for an existing user
\* who is not among the requester's potential friends is answered
\* "user-not-potential-friend" and leaves the Like and Dislike rows as they were.
C1_NonCandidateRejected ==
  [][( /\ request'.op \in {"like", "dislike"}
       /\ request'.g_user # NoUser
       /\ request'.id \in Ids
       /\ request'.id \notin potential_friends(request'.g_user) )
     => /\ response'.status = "user-not-potential-friend"
        /\ UNCHANGED <<likes, dislikes>>]_vars

C1_Witness ==
  /\ Rejected("like")
  /\ request.g_user # NoUser
  /\ request.id \in Ids
  /\ request.id \notin potential_friends(request.g_user)

\* C2: whatever sequence of like and dislike requests is served, each ordered
\* pair (actor, target) has at most one Like row and at most one Dislike row.
C2_NoDuplicateRows ==
  \A p \in Pairs : likes[p] <= 1 /\ dislikes[p] <= 1

\* the like of request.g_user for request.id was asked a second time
C2_Witness ==
  /\ Rejected("like")
  /\ request.g_user # NoUser
  /\ likes[<<request.g_user, request.id>>] = 1

\* C4: a potential friend C of U has no decision from U and no dislike of U;
\* a like from C to U does not by itself remove C from U's potential friends.
C4_DecisionFilter ==
  \A u \in Ids :
    /\ \A c \in potential_friends(u) :
         /\ likes[<<u, c>>] = 0
         /\ dislikes[<<u, c>>] = 0
         /\ dislikes[<<c, u>>] = 0
    /\ \A c \in Ids \ {u} :
         ( /\ likes[<<c, u>>] > 0
           /\ ~decided(u, c)
           /\ dislikes[<<c, u>>] = 0
           /\ in_radius(u, c) )
         => c \in potential_friends(u)

C4_Witness ==
  \E u \in Ids : \E c \in potential_friends(u) : likes[<<c, u>>] > 0

\* C5: no user is their own potential friend, and no Like or Dislike row has
\* the same user as actor and target.
C5_NeverSelf ==
  /\ \A u \in Ids : u \notin potential_friends(u)
  /\ \A u \in UserIds : likes[<<u, u>>] = 0 /\ dislikes[<<u, u>>] = 0

\* a user asked to like themselves
C5_Witness ==
  /\ Rejected("like")
  /\ request.g_user # NoUser
  /\ request.id = request.g_user
  /\ users[request.g_user].coordinates # NoCoords

C7_PotentialsPureRead ==
  [][request'.op = "potentials" => UNCHANGED <<users, likes, dislikes>>]_vars

C7_Witness ==
  /\ request.op = "potentials"
  /\ response.status = "user_options"
  /\ response.user_options # <<>>

\* C8: Like and Dislike rows are never changed or removed by any request, and a
\* user C on whom U has decided is never again a potential friend of U.
C8_AppendOnly ==
  [][\A p \in Pairs :
       /\ likes'[p] >= likes[p]
       /\ dislikes'[p] >= dislikes[p]
       /\ decided(p[1], p[2]) =>
            /\ likes'[p] = likes[p]
            /\ dislikes'[p] = dislikes[p]
            /\ p[2] \notin Range(get_list_of_potential_friends(p[1]))']_vars

\* a profile edit served after a decision was recorded
C8_Witness ==
  /\ request.op = "edit"
  /\ response.status = "user"
  /\ \E p \in Pairs : decided(p[1], p[2])

\* C10: a profile edit changes only the User row of the authenticated requester.
C10_EditOnlyOwnProfile ==
  [][\A i \in Ids :
       (request'.op = "edit" /\ users'[i] # users[i]) => i = request'.g_user]_vars

\* C3: a like row from U to C is only ever inserted in a state where C has no
\* dislike of U and U has no decision on C (check and insert act as one step).
C3_CheckAndInsertAtomic ==
  [][\A p \in Pairs :
       likes'[p] > likes[p] =>
         /\ dislikes[<<p[2], p[1]>>] = 0
         /\ likes[p] = 0
         /\ dislikes[p] = 0]_vars

\* C9: no ordered pair (U, C) carries both a Like and a Dislike record.
C9_OneDecisionPerPair ==
  \A p \in Pairs : ~(likes[p] > 0 /\ dislikes[p] > 0)

====
